---- MODULE Spec2Model ----
(***************************************************************************)
(* Model of clang_opcodes.cpp: the clang_compile and clang_invoke Csound   *)
(* opcodes, the process-wide JITCompiler (an LLVM ORC execution session    *)
(* with one JITDylib) and the module teardown hook.                        *)
(***************************************************************************)
EXTENDS Integers, Sequences, FiniteSets, TLC

(* ---------------------------- bounds ---------------------------------- *)
MaxSessions == 2    \* JITCompiler objects that may be constructed
MaxModules == 2     \* modules added to one session

(* --------------------- constants of the program ------------------------ *)
OK == 0
NOTOK == 0 - 1
NoStatus == 99      \* "the request did not return" (exit or crash)
NoRet == 255        \* int result = 255: the entry point was not called
npos == 0           \* std::string::npos, positions are 1-based here

(* ---------------------- the small input universe ----------------------- *)
\* Symbol names.  "q" is exported by the library x, "a" and "b" by no library.
Names == {"a", "b", "q"}
\* What the function a library exports returns when it is called.
LibExportRet(name) == IF name = "q" THEN 3 ELSE 0
\* Strings are sequences of one-character strings.
LibX == <<"x">>
ExistingLibs == {LibX}
LibExports(lib) == IF lib = LibX THEN {"q"} ELSE {}
OptionStrings == { <<" ", "-", "v", " ", "-", "O">>, <<"-", "v", "v">> }
LibStrings == { <<>>, <<" ", "y", " ", " ", "x">> }
\* What a source text compiles to: the symbols it defines, the external
\* symbols it references, and the value its functions return.
Modules ==
    { [defs |-> {"a"}, needs |-> {}, ret |-> 42],
      [defs |-> {"b"}, needs |-> {"a"}, ret |-> 7],
      [defs |-> {"a", "b"}, needs |-> {}, ret |-> 0],
      [defs |-> {"b"}, needs |-> {"q"}, ret |-> 5] }
NoModule == [defs |-> {}, needs |-> {}, ret |-> NoRet]
\* What the clang driver and front end do with the request.
GoodFrontEnd ==
    [built |-> TRUE, jobs |-> 1, creator |-> "clang", hasDiag |-> TRUE,
     actionOk |-> TRUE, hasModule |-> TRUE]
FrontEnds ==
    { GoodFrontEnd,
      [GoodFrontEnd EXCEPT !.built = FALSE],
      [GoodFrontEnd EXCEPT !.jobs = 0],
      [GoodFrontEnd EXCEPT !.jobs = 2],
      [GoodFrontEnd EXCEPT !.creator = "gcc"],
      [GoodFrontEnd EXCEPT !.hasDiag = FALSE],
      [GoodFrontEnd EXCEPT !.actionOk = FALSE],
      [GoodFrontEnd EXCEPT !.hasModule = FALSE] }
Threads == {0, 1, 2, 3}
Statuses == {OK, NOTOK}
\* What a null-pointer dereference may do to the process.
Crashes == {"crashed", "exited"}
\* The clang_invoke call sites (opcode instances).
Sites == {1}
\* The clang_compile call sites that run at the same time, where they do.
Workers == {1, 2}

(* ------------------------------ state ---------------------------------- *)
VARIABLES
    proc,             \* "running", "exited" (exit_on_error), "crashed"
    enabled,          \* the static of clang_diagnostics_enabled()
    dylib_count,      \* the static of dylib_name(): sessions constructed
    jit_compiler,     \* 0 = null, else the id of the live JITCompiler
    symtab,           \* main_jit_dylib: name -> 0 unbound, -1 process, i module
    modules,          \* modules added to main_jit_dylib, in order
    compiled,         \* indices of the modules whose code was generated
    endCount,         \* session id -> calls of execution_session.endSession
    libs,             \* libraries LoadLibraryPermanently has loaded
    llvm_shut,        \* llvm_shutdown() has run
    thread,           \* ClangInvoke::thread per call site
    clang_invokable,  \* ClangInvoke::clang_invokable per call site: non-null
    inits,            \* the call sites whose init pass has run
    pc,               \* per clang_compile call site: where its init stands
    job,              \* per clang_compile call site: the locals of its init
    resolved,         \* name -> the address its first resolution returned, 0 none
    last              \* what the last request did (history)

vars == <<proc, enabled, dylib_count, jit_compiler, symtab, modules, compiled,
          endCount, libs, llvm_shut, thread, clang_invokable, inits,
          pc, job, resolved, last>>

session == <<dylib_count, jit_compiler, symtab, modules, compiled, endCount, libs,
            resolved>>

\* What only call sites running at the same time write.
conc == <<pc, job>>

(* ------------------------------ tokenize ------------------------------- *)
\* std::string::find_first_not_of(delimiter, pos)
FindFirstNotOf(s, d, pos) ==
    IF pos = npos THEN npos
    ELSE LET hits == {i \in pos..Len(s) : s[i] # d}
         IN IF hits = {} THEN npos
            ELSE CHOOSE i \in hits : \A j \in hits : i <= j

\* std::string::find(delimiter, pos)
Find(s, d, pos) ==
    LET hits == {i \in pos..Len(s) : s[i] = d}
    IN IF hits = {} THEN npos
       ELSE CHOOSE i \in hits : \A j \in hits : i <= j

RECURSIVE TokenizeFrom(_, _, _, _)
TokenizeFrom(s, d, end, tokens) ==
    LET start == FindFirstNotOf(s, d, end)
    IN IF start = npos THEN tokens
       ELSE LET e == Find(s, d, start)
                tok == IF e = npos THEN SubSeq(s, start, Len(s))
                       ELSE SubSeq(s, start, e - 1)
            IN TokenizeFrom(s, d, e, Append(tokens, tok))

tokenize(s, d) == TokenizeFrom(s, d, 1, <<>>)

\* The loop over the option tokens without the assignment that clears enabled.
DiagnosticsAfterOptions_Sticky(opts) ==
    LET tokens == tokenize(opts, " ")
    IN enabled \/ \E i \in 1..Len(tokens) : tokens[i] = <<"-", "v">>

\* The loop over the option tokens: enabled is cleared, then set by "-v".
DiagnosticsAfterOptions(opts) ==
    LET tokens == tokenize(opts, " ")
    IN \E i \in 1..Len(tokens) : tokens[i] = <<"-", "v">>

(* ------------------------- the front end ------------------------------- *)
\* The early returns without the check of the number of jobs.
FrontEndReturnsEarly_NoJobCheck(fe) ==
    \/ ~fe.built
    \/ fe.creator # "clang"
    \/ ~fe.hasDiag
    \/ ~fe.actionOk

\* TRUE when ClangCompile::init returns before it reaches the module.
FrontEndReturnsEarly(fe) ==
    \/ ~fe.built
    \/ fe.jobs # 1
    \/ fe.creator # "clang"
    \/ ~fe.hasDiag
    \/ ~fe.actionOk

\* The value of that early return.
FrontEndStatus(fe) == IF ~fe.built THEN 0 ELSE 1

\* The value of the return at the end of ClangCompile::init.
CompileReturn(result) == OK

(* ------------------------- library loading ----------------------------- *)
\* A loop over the libraries that ends at the first one that fails to load.
RECURSIVE LoadAll_StopAtFailure(_, _)
LoadAll_StopAtFailure(list, loaded) ==
    IF list = <<>> \/ Head(list) \notin ExistingLibs THEN loaded
    ELSE LoadAll_StopAtFailure(Tail(list), loaded \cup {Head(list)})

\* LoadLibraryPermanently on every token of link_libraries, in order; what it
\* returns is not looked at.
RECURSIVE LoadAll(_, _)
LoadAll(list, loaded) ==
    IF list = <<>> THEN loaded
    ELSE LoadAll(Tail(list),
                 IF Head(list) \in ExistingLibs THEN loaded \cup {Head(list)}
                 ELSE loaded)

ProcessSymbols(loaded) == UNION {LibExports(l) : l \in loaded}

(* --------------------------- JITCompiler ------------------------------- *)
EmptySymtab == [n \in Names |-> 0]

\* A session constructed on every request.
NeedsCreate_Always(j) == TRUE

\* if (!jit_compiler)
NeedsCreate(j) == j = 0

\* addModule without the duplicate-definition error: the new module rebinds.
addModule_NoDuplicateCheck(st, mods, m) ==
    [ok |-> TRUE,
     symtab |-> [n \in Names |-> IF n \in m.defs THEN Len(mods) + 1 ELSE st[n]],
     modules |-> Append(mods, m)]

\* addModule into a JITDylib of the module's own: earlier bindings are not seen.
addModule_OwnDylib(st, mods, m) ==
    [ok |-> TRUE,
     symtab |-> [n \in Names |-> IF n \in m.defs THEN Len(mods) + 1 ELSE 0],
     modules |-> Append(mods, m)]

\* IRCompileLayer::add into main_jit_dylib: a strong definition of a name the
\* dylib already binds is a duplicate definition; nothing is compiled yet.
addModule(st, mods, m) ==
    IF \E n \in m.defs : st[n] # 0
    THEN [ok |-> FALSE, symtab |-> st, modules |-> mods]
    ELSE [ok |-> TRUE,
          symtab |-> [n \in Names |-> IF n \in m.defs THEN Len(mods) + 1 ELSE st[n]],
          modules |-> Append(mods, m)]

\* The modules whose code a lookup of the modules in S has to generate.
RECURSIVE LinkClosure(_, _, _, _)
LinkClosure(st, mods, done, S) ==
    LET refs == UNION {mods[i].needs : i \in S}
        next == S \cup ({st[n] : n \in refs} \cap ((1..Len(mods)) \ done))
    IN IF next = S THEN S ELSE LinkClosure(st, mods, done, next)

\* A lookup that hands out the address of a module it has not linked.
findSymbol_NoLink(st, mods, done, psyms, name) ==
    IF st[name] = 0
    THEN IF name \in psyms
         THEN [ok |-> TRUE, symtab |-> [st EXCEPT ![name] = 0 - 1],
               compiled |-> done, address |-> 0 - 1]
         ELSE [ok |-> FALSE, symtab |-> st, compiled |-> done, address |-> 0]
    ELSE [ok |-> TRUE, symtab |-> st,
          compiled |-> IF st[name] = 0 - 1 THEN done ELSE done \cup {st[name]},
          address |-> st[name]]

\* ExecutionSession::lookup in main_jit_dylib.  A name the dylib does not bind
\* goes to the process-symbol generator, which binds what it finds.  A name
\* bound to a module that is not compiled yet compiles and links that module
\* and the modules it references; the link fails on an unresolvable reference.
findSymbol(st, mods, done, psyms, name) ==
    IF st[name] = 0
    THEN IF name \in psyms
         THEN [ok |-> TRUE, symtab |-> [st EXCEPT ![name] = 0 - 1],
               compiled |-> done, address |-> 0 - 1]
         ELSE [ok |-> FALSE, symtab |-> st, compiled |-> done, address |-> 0]
    ELSE IF st[name] = 0 - 1 \/ st[name] \in done
    THEN [ok |-> TRUE, symtab |-> st, compiled |-> done, address |-> st[name]]
    ELSE LET C == LinkClosure(st, mods, done, {st[name]})
             refs == UNION {mods[i].needs : i \in C}
         IN IF \A n \in refs : st[n] # 0 \/ n \in psyms
            THEN [ok |-> TRUE,
                  symtab |-> [n \in Names |->
                                 IF n \in refs /\ st[n] = 0 THEN 0 - 1 ELSE st[n]],
                  compiled |-> done \cup C, address |-> st[name]]
            ELSE [ok |-> FALSE, symtab |-> st, compiled |-> done, address |-> 0]

getSymbolAddress(st, mods, done, psyms, name) ==
    findSymbol(st, mods, done, psyms, name)

\* What calling the function at an address returns.
CallResult(mods, name, address) ==
    IF address = 0 - 1 THEN LibExportRet(name) ELSE mods[address].ret

\* The session deleted through the raw pointer, the shared_ptr left as it was.
ResetJit_Keep(j) == j

\* jit_compiler.reset() in the teardown hook.
ResetJit(j) == 0

(* ------------------------- the history record -------------------------- *)
\* op: the request; outcome: "returned", "exited" or "crashed"; status: the
\* value returned; fe: what the front end did; name: the symbol looked up;
\* mod: the module handed to addModule;
\* sess: the session used; created: this request constructed it; addr: the
\* address resolved (0 none); invoked: calls of the entry point; ret: what it
\* returned; err: the error met; again: the request before was a teardown too;
\* site: the call site; delivered: the operation of the ClangInvokable object
\* the request called ("none", "init", "kontrol", "noteoff"); obj: the status
\* that operation returned; after: for a note-off request, what the request
\* before it delivered to the object of the same call site; opts, ll: the
\* compiler options and the library list of a compile request.
Request(op) ==
    [op |-> op, outcome |-> "returned", status |-> OK, fe |-> GoodFrontEnd,
     name |-> "", mod |-> NoModule, sess |-> 0, created |-> FALSE, addr |-> 0, invoked |-> 0,
     ret |-> NoRet, err |-> "none", site |-> 0, again |-> FALSE,
     delivered |-> "none", obj |-> NoStatus, after |-> "none",
     opts |-> <<>>, ll |-> <<>>]

Died(req, how, err) ==
    [req EXCEPT !.outcome = how, !.status = NoStatus, !.err = err]

\* An error handed to exit_on_error that is reported and then ignored.
exit_on_error_Ignore(ok) == "running"

\* llvm::ExitOnError: a failure value ends the process, a success is unwrapped.
exit_on_error(ok) == IF ok THEN "running" ELSE "exited"

\* The address a name resolved to first is what the session remembers.
Remember(res, name, address) ==
    IF res[name] = 0 THEN [res EXCEPT ![name] = address] ELSE res

\* The locals of a compile request: entry point, option string, library
\* list, module, the session its call in progress runs on, and whether it
\* constructed a session.
NoJob ==
    [entry |-> "", opts |-> <<>>, ll |-> <<>>, mod |-> NoModule, using |-> 0,
     created |-> FALSE]

(* ------------------------------- Init ---------------------------------- *)
Init ==
    /\ proc = "running"
    /\ enabled = FALSE
    /\ dylib_count = 0
    /\ jit_compiler = 0
    /\ symtab = EmptySymtab
    /\ modules = <<>>
    /\ compiled = {}
    /\ endCount = [i \in 1..MaxSessions |-> 0]
    /\ libs = {}
    /\ llvm_shut = FALSE
    /\ thread = [s \in Sites |-> 0]
    /\ clang_invokable = [s \in Sites |-> FALSE]
    /\ inits = {}
    /\ pc = [t \in Workers |-> "idle"]
    /\ job = [t \in Workers |-> NoJob]
    /\ resolved = [n \in Names |-> 0]
    /\ last = Request("none")

(* ------------------------- ClangCompile::init -------------------------- *)
\* The part of ClangCompile::init inside if(module): load the libraries,
\* create the session if there is none, add the module, resolve and call the
\* entry point.  exit_on_error ends the process on any error.
CompileModule(entry, opts, ll, fe, m, createOk) ==
    LET loaded == LoadAll(tokenize(ll, " "), libs)
        psyms == ProcessSymbols(loaded)
        create == NeedsCreate(jit_compiler)
        sid == IF create THEN dylib_count + 1 ELSE jit_compiler
        st0 == IF create THEN EmptySymtab ELSE symtab
        mods0 == IF create THEN <<>> ELSE modules
        done0 == IF create THEN {} ELSE compiled
        res0 == IF create THEN [n \in Names |-> 0] ELSE resolved
        add == addModule(st0, mods0, m)
        sym == getSymbolAddress(add.symtab, add.modules, done0, psyms, entry)
        result == CallResult(add.modules, entry, sym.address)
        req == [Request("compile") EXCEPT !.fe = fe, !.name = entry,
                                          !.opts = opts, !.ll = ll]
        req1 == [req EXCEPT !.sess = sid, !.created = create, !.mod = m]
    IN /\ create => dylib_count < MaxSessions
       /\ Len(mods0) < MaxModules
       /\ libs' = loaded
       /\ IF create /\ ~createOk
          THEN /\ proc' = exit_on_error(createOk)
               /\ UNCHANGED <<dylib_count, jit_compiler, symtab, modules,
                              compiled, endCount, resolved>>
               /\ last' = Died(req, "exited", "create")
          ELSE /\ dylib_count' = IF create THEN dylib_count + 1 ELSE dylib_count
               /\ jit_compiler' = sid
               /\ endCount' = IF create /\ jit_compiler # 0
                              THEN [endCount EXCEPT ![jit_compiler] = @ + 1]
                              ELSE endCount
               /\ IF ~add.ok
                  THEN /\ proc' = exit_on_error(add.ok)
                       /\ symtab' = st0 /\ modules' = mods0 /\ compiled' = done0
                       /\ resolved' = res0
                       /\ last' = Died(req1, "exited", "duplicate")
                  ELSE /\ symtab' = sym.symtab
                       /\ modules' = add.modules
                       /\ compiled' = sym.compiled
                       /\ IF ~sym.ok
                          THEN /\ proc' = exit_on_error(sym.ok)
                               /\ resolved' = res0
                               /\ last' = Died(req1, "exited", "notfound")
                          ELSE /\ proc' = proc
                               /\ resolved' = Remember(res0, entry, sym.address)
                               /\ last' = [req1 EXCEPT
                                            !.status = CompileReturn(result),
                                            !.addr = sym.address,
                                            !.invoked = 1, !.ret = result]

ClangCompile_init(entry, opts, ll, fe, m, createOk) ==
    /\ proc = "running"
    /\ enabled' = DiagnosticsAfterOptions(opts)
    /\ UNCHANGED <<llvm_shut, thread, clang_invokable, inits, conc>>
    /\ IF FrontEndReturnsEarly(fe)
       THEN /\ UNCHANGED <<proc, session>>
            /\ last' = [Request("compile") EXCEPT !.fe = fe, !.opts = opts,
                                                  !.status = FrontEndStatus(fe)]
       ELSE IF ~fe.hasModule
       THEN /\ UNCHANGED <<proc, session>>
            /\ last' = [Request("compile") EXCEPT !.fe = fe, !.opts = opts,
                                                  !.status = CompileReturn(255)]
       ELSE CompileModule(entry, opts, ll, fe, m, createOk)

(* -------------------------- ClangInvoke -------------------------------- *)
ValidThread(th) == th = 1 \/ th = 2 \/ th = 3

\* An init pass that calls the object's init under every thread value.
InitReturnsEarly_Never(th) == FALSE

\* if (thread == 2) return result; before the object's init is called.
InitReturnsEarly(th) == th = 2

\* A performance pass that calls the object's kontrol under every thread value.
KontrolReturnsEarly_Never(th) == FALSE

\* if (thread == 1) return result; before the object's kontrol is called.
KontrolReturnsEarly(th) == th = 1

\* A note-off pass that keeps the instance when the object's noteoff failed.
NoteoffReleases_OnSuccess(result) == result = OK

\* clang_invokable.reset() follows the object's noteoff unconditionally.
NoteoffReleases(result) == TRUE

ClangInvoke_init(s, factory, th, objStatus, ub) ==
    /\ proc = "running"
    /\ thread' = [thread EXCEPT ![s] = th]
    /\ inits' = inits \cup {s}
    /\ UNCHANGED <<enabled, dylib_count, jit_compiler, modules, endCount, libs,
                   llvm_shut, conc>>
    /\ LET req == [Request("invoke") EXCEPT !.site = s]
           req1 == [req EXCEPT !.name = factory, !.sess = jit_compiler]
           sym == getSymbolAddress(symtab, modules, compiled,
                                   ProcessSymbols(libs), factory)
       IN IF ~ValidThread(th)
          THEN /\ UNCHANGED <<proc, symtab, compiled, clang_invokable, resolved>>
               /\ last' = [req EXCEPT !.status = NOTOK, !.err = "thread"]
          ELSE IF jit_compiler = 0
          THEN \* jit_compiler-> on a null pointer: undefined behaviour
               /\ proc' = ub
               /\ UNCHANGED <<symtab, compiled, clang_invokable, resolved>>
               /\ last' = Died(req1, ub, "null")
          ELSE IF ~sym.ok
          THEN /\ proc' = exit_on_error(sym.ok)
               /\ UNCHANGED <<symtab, compiled, clang_invokable, resolved>>
               /\ last' = Died(req1, "exited", "notfound")
          ELSE /\ proc' = proc
               /\ symtab' = sym.symtab
               /\ compiled' = sym.compiled
               /\ resolved' = Remember(resolved, factory, sym.address)
               /\ clang_invokable' = [clang_invokable EXCEPT ![s] = TRUE]
               /\ IF InitReturnsEarly(th)
                  THEN last' = [req1 EXCEPT !.addr = sym.address, !.status = OK]
                  ELSE last' = [req1 EXCEPT !.addr = sym.address,
                                            !.delivered = "init",
                                            !.obj = objStatus,
                                            !.status = objStatus]

ClangInvoke_kontrol(s, objStatus, ub) ==
    /\ proc = "running"
    /\ UNCHANGED <<enabled, session, llvm_shut, thread, clang_invokable, inits,
                   conc>>
    /\ LET req == [Request("kontrol") EXCEPT !.site = s]
       IN IF KontrolReturnsEarly(thread[s])
          THEN /\ proc' = proc
               /\ last' = req
          ELSE IF ~clang_invokable[s]
          THEN \* clang_invokable-> on a null pointer: undefined behaviour
               /\ proc' = ub
               /\ last' = Died(req, ub, "null")
          ELSE /\ proc' = proc
               /\ last' = [req EXCEPT !.delivered = "kontrol", !.obj = objStatus,
                                      !.status = objStatus]

ClangInvoke_noteoff(s, objStatus, ub) ==
    /\ proc = "running"
    /\ UNCHANGED <<enabled, session, llvm_shut, thread, inits, conc>>
    /\ LET req == [Request("noteoff") EXCEPT
                      !.site = s,
                      !.after = IF last.site = s THEN last.delivered ELSE "none"]
       IN IF ~clang_invokable[s]
          THEN \* clang_invokable-> on a null pointer: undefined behaviour
               /\ proc' = ub
               /\ UNCHANGED clang_invokable
               /\ last' = Died(req, ub, "null")
          ELSE /\ proc' = proc
               /\ clang_invokable' =
                      [clang_invokable EXCEPT ![s] = ~NoteoffReleases(objStatus)]
               /\ last' = [req EXCEPT !.delivered = "noteoff", !.obj = objStatus,
                                      !.status = objStatus]

(* ------------------ csoundModuleDestroy_clang_opcodes ------------------ *)
csoundModuleDestroy_clang_opcodes ==
    /\ proc = "running"
    /\ UNCHANGED <<proc, enabled, dylib_count, libs, thread, clang_invokable,
                   inits, conc>>
    /\ jit_compiler' = ResetJit(jit_compiler)
    /\ llvm_shut' = TRUE
    /\ IF jit_compiler # 0
       THEN \* ~JITCompiler: endSession releases every module and binding
            /\ endCount' = [endCount EXCEPT ![jit_compiler] = @ + 1]
            /\ symtab' = EmptySymtab
            /\ modules' = <<>>
            /\ compiled' = {}
            /\ resolved' = [n \in Names |-> 0]
       ELSE UNCHANGED <<endCount, symtab, modules, compiled, resolved>>
    /\ last' = [Request("destroy") EXCEPT !.sess = jit_compiler,
                                          !.again = (last.op = "destroy")]

(* ------------------------------- Next ---------------------------------- *)
\* TRUE when a compile request with module m gets as far as the lookup of its
\* entry point: the session exists or is created, and addModule succeeds.
ReachesLookup(m, createOk) ==
    LET create == NeedsCreate(jit_compiler)
    IN /\ create => createOk
       /\ addModule(IF create THEN EmptySymtab ELSE symtab,
                    IF create THEN <<>> ELSE modules, m).ok

\* A request that fails in the front end reads neither the entry point's
\* address, the library list nor a module, so those inputs are fixed there;
\* so is the entry point of a request that ends before the lookup.
Compile ==
    \E opts \in OptionStrings, fe \in FrontEnds :
        IF FrontEndReturnsEarly(fe) \/ ~fe.hasModule
        THEN ClangCompile_init("a", opts, <<>>, fe, CHOOSE m \in Modules : TRUE, TRUE)
        ELSE \E ll \in LibStrings, m \in Modules,
                createOk \in (IF NeedsCreate(jit_compiler) THEN BOOLEAN ELSE {TRUE}) :
                 \E entry \in (IF ReachesLookup(m, createOk) THEN Names ELSE {"a"}) :
                     ClangCompile_init(entry, opts, ll, fe, m, createOk)

\* Inputs a request does not read are fixed: the factory name under an
\* invalid thread, the object's status where the object is not called, the
\* outcome of a null dereference where the pointer is not null.
Invoke ==
    \E s \in Sites, th \in Threads :
        \E factory \in (IF ValidThread(th) THEN Names ELSE {"a"}),
           st \in (IF ~InitReturnsEarly(th) /\ jit_compiler # 0
                  THEN Statuses ELSE {OK}),
           ub \in (IF jit_compiler = 0 THEN Crashes ELSE {"crashed"}) :
            ClangInvoke_init(s, factory, th, st, ub)

\* The host runs the performance and note-off passes of a call site only
\* after its init pass.
Kontrol ==
    \E s \in inits :
        \E st \in (IF ~KontrolReturnsEarly(thread[s]) /\ clang_invokable[s]
                   THEN Statuses ELSE {OK}),
           ub \in (IF clang_invokable[s] THEN {"crashed"} ELSE Crashes) :
            ClangInvoke_kontrol(s, st, ub)

Noteoff ==
    \E s \in inits :
        \E st \in (IF clang_invokable[s] THEN Statuses ELSE {OK}),
           ub \in (IF clang_invokable[s] THEN {"crashed"} ELSE Crashes) :
            ClangInvoke_noteoff(s, st, ub)

Destroy == csoundModuleDestroy_clang_opcodes

Next == Compile \/ Invoke \/ Kontrol \/ Noteoff \/ Destroy

Spec == Init /\ [][Next]_vars

(* ------------- compile requests running at the same time --------------- *)
\* ClangCompile::init of a request whose front end yields a module, one
\* statement that touches jit_compiler at a time.  The file takes no lock:
\* between two steps of one call site the other call site may take steps.
\* pc: "idle", "check" (363), "create" (364), "add" (367, before the call),
\* "in_add" (inside addModule), "lookup" (370, before the call), "in_lookup"
\* (inside getSymbolAddress), "done".
site_vars == <<llvm_shut, thread, clang_invokable, inits>>

\* Lines 242-361: options, front end, libraries.
Conc_Begin(t, entry, opts, ll, m) ==
    /\ proc = "running"
    /\ pc[t] = "idle"
    /\ enabled' = DiagnosticsAfterOptions(opts)
    /\ libs' = LoadAll(tokenize(ll, " "), libs)
    /\ job' = [job EXCEPT ![t] = [NoJob EXCEPT !.entry = entry, !.opts = opts,
                                               !.ll = ll, !.mod = m]]
    /\ pc' = [pc EXCEPT ![t] = "check"]
    /\ UNCHANGED <<proc, dylib_count, jit_compiler, symtab, modules, compiled,
                   endCount, resolved, last, site_vars>>

\* Line 363: if (!jit_compiler)
Conc_CheckSession(t) ==
    /\ proc = "running"
    /\ pc[t] = "check"
    /\ pc' = [pc EXCEPT ![t] = IF NeedsCreate(jit_compiler) THEN "create" ELSE "add"]
    /\ UNCHANGED <<proc, enabled, session, job, last, site_vars>>

\* The record of the request of call site t.
ConcRequest(t) ==
    [Request("compile") EXCEPT !.name = job[t].entry, !.opts = job[t].opts,
                               !.ll = job[t].ll, !.mod = job[t].mod,
                               !.site = t, !.sess = job[t].using,
                               !.created = job[t].created]

\* Line 364: jit_compiler = exit_on_error(JITCompiler::Create()).  The
\* assignment releases the session the pointer held, if another call site
\* has stored one since line 363 was evaluated; that unsynchronized write is
\* a data race, whose outcome may also be a crash.
Conc_CreateSession(t, createOk, race) ==
    /\ proc = "running"
    /\ pc[t] = "create"
    /\ dylib_count < MaxSessions
    /\ UNCHANGED <<enabled, libs, site_vars>>
    /\ IF ~createOk
       THEN /\ proc' = exit_on_error(createOk)
            /\ last' = Died(ConcRequest(t), "exited", "create")
            /\ UNCHANGED <<dylib_count, jit_compiler, symtab, modules, compiled,
                           endCount, resolved, pc, job>>
       ELSE IF race # "running"
       THEN /\ proc' = race
            /\ last' = Died(ConcRequest(t), race, "race")
            /\ UNCHANGED <<dylib_count, jit_compiler, symtab, modules, compiled,
                           endCount, resolved, pc, job>>
       ELSE /\ proc' = proc
            /\ dylib_count' = dylib_count + 1
            /\ jit_compiler' = dylib_count + 1
            /\ endCount' = IF jit_compiler # 0
                           THEN [endCount EXCEPT ![jit_compiler] = @ + 1]
                           ELSE endCount
            /\ symtab' = EmptySymtab
            /\ modules' = <<>>
            /\ compiled' = {}
            /\ resolved' = [n \in Names |-> 0]
            /\ job' = [job EXCEPT ![t].created = TRUE]
            /\ pc' = [pc EXCEPT ![t] = "add"]
            /\ UNCHANGED last

\* Lines 367 and 370: jit_compiler-> is read and the call begins.
Conc_Call(t) ==
    /\ proc = "running"
    /\ pc[t] \in {"add", "lookup"}
    /\ job' = [job EXCEPT ![t].using = jit_compiler]
    /\ pc' = [pc EXCEPT ![t] = IF pc[t] = "add" THEN "in_add" ELSE "in_lookup"]
    /\ UNCHANGED <<proc, enabled, session, last, site_vars>>

\* A call in progress on a session that another call site has released in
\* the meantime uses freed memory.
Conc_UseAfterFree(t, ub) ==
    /\ proc = "running"
    /\ pc[t] \in {"in_add", "in_lookup"}
    /\ job[t].using # jit_compiler
    /\ proc' = ub
    /\ last' = Died(ConcRequest(t), ub, "freed")
    /\ UNCHANGED <<enabled, session, conc, site_vars>>

\* Line 367: addModule takes effect and returns.
Conc_AddModuleReturn(t) ==
    /\ proc = "running"
    /\ pc[t] = "in_add"
    /\ job[t].using = jit_compiler
    /\ Len(modules) < MaxModules
    /\ LET add == addModule(symtab, modules, job[t].mod)
       IN /\ symtab' = add.symtab
          /\ modules' = add.modules
          /\ proc' = exit_on_error(add.ok)
          /\ IF add.ok
             THEN /\ pc' = [pc EXCEPT ![t] = "lookup"]
                  /\ UNCHANGED last
             ELSE /\ pc' = pc
                  /\ last' = Died(ConcRequest(t), "exited", "duplicate")
    /\ UNCHANGED <<enabled, dylib_count, jit_compiler, compiled, endCount, libs,
                   resolved, job, site_vars>>

\* Lines 370-375: getSymbolAddress takes effect and returns, the entry point
\* is called, init returns.
Conc_LookupReturn(t) ==
    /\ proc = "running"
    /\ pc[t] = "in_lookup"
    /\ job[t].using = jit_compiler
    /\ LET sym == getSymbolAddress(symtab, modules, compiled,
                                   ProcessSymbols(libs), job[t].entry)
           result == CallResult(modules, job[t].entry, sym.address)
       IN /\ symtab' = sym.symtab
          /\ compiled' = sym.compiled
          /\ proc' = exit_on_error(sym.ok)
          /\ IF sym.ok
             THEN /\ pc' = [pc EXCEPT ![t] = "done"]
                  /\ resolved' = Remember(resolved, job[t].entry, sym.address)
                  /\ last' = [ConcRequest(t) EXCEPT
                                 !.status = CompileReturn(result),
                                 !.addr = sym.address,
                                 !.invoked = 1, !.ret = result]
             ELSE /\ pc' = pc
                  /\ resolved' = resolved
                  /\ last' = Died(ConcRequest(t), "exited", "notfound")
    /\ UNCHANGED <<enabled, dylib_count, jit_compiler, modules, endCount, libs,
                   job, site_vars>>

\* The requests that run at the same time differ in entry point and module.
ConcOptions == <<"-", "v">>
ConcLibraries == <<"x">>

NextConc ==
    \E t \in Workers :
        \/ \E entry \in Names, m \in Modules :
               Conc_Begin(t, entry, ConcOptions, ConcLibraries, m)
        \/ Conc_CheckSession(t)
        \/ \E createOk \in BOOLEAN,
              race \in (IF jit_compiler # 0 THEN {"running"} \cup Crashes
                        ELSE {"running"}) :
               Conc_CreateSession(t, createOk, race)
        \/ Conc_Call(t)
        \/ \E ub \in Crashes : Conc_UseAfterFree(t, ub)
        \/ Conc_AddModuleReturn(t)
        \/ Conc_LookupReturn(t)

SpecConc == Init /\ [][NextConc]_vars

(* =========================== the claims ================================ *)
\* The last request was a compile request that got a module from the front end.
CompiledAModule ==
    /\ last.op = "compile"
    /\ ~FrontEndReturnsEarly(last.fe)
    /\ last.fe.hasModule

\* The last request was a compile request the front end failed.
FrontEndFailed == last.op = "compile" /\ last.fe # GoodFrontEnd

SessionEnded == \E i \in 1..MaxSessions : endCount[i] > 0

\* C1: a compile request that succeeds has called the entry point exactly once
\* and returns, as its status, the value the entry point returned.
C1_StatusIsEntryResult ==
    (CompiledAModule /\ last.outcome = "returned")
        => (last.invoked = 1 /\ last.status = last.ret)

\* C2: every failure of the front end (no compilation plan, zero or several
\* jobs, a job that is not a clang command, a failed code-generation action,
\* no module) makes the compile request return a status that is not OK.
C2_FrontEndFailureIsNotOK ==
    FrontEndFailed => (last.outcome = "returned" /\ last.status # OK)

\* C3: a compile request that fails in the front end leaves the session as it
\* was: no module added, no library loaded, no session created, and the entry
\* point is not called.
C3_FrontEndFailureFrame ==
    [][(last'.op = "compile" /\ last'.fe # GoodFrontEnd)
         => /\ UNCHANGED session
            /\ last'.invoked = 0
            /\ ~last'.created
            /\ (jit_compiler = 0 => jit_compiler' = 0)]_vars

C3_Witness ==
    /\ last.op = "compile"
    /\ last.fe.jobs # 1
    /\ jit_compiler = 0
    /\ dylib_count = 0

\* C4: as long as only compile and invoke requests have run (no teardown), at
\* most one JIT session was ever constructed; it is constructed by a compile
\* request that produced a module, and every request uses that one session.
C4_OneSession ==
    ~llvm_shut =>
        /\ dylib_count <= 1
        /\ jit_compiler = dylib_count
        /\ last.sess \in {0, jit_compiler}
        /\ last.created => CompiledAModule

C4_Witness ==
    /\ ~llvm_shut
    /\ Len(modules) = 2
    /\ last.op = "invoke"
    /\ last.addr # 0
    /\ last.sess = 1
    /\ dylib_count = 1

UsedEndedSession ==
    /\ SessionEnded
    /\ last.op = "invoke"
    /\ ValidThread(thread[last.site])
    /\ last.sess = 0

\* C6: after the session has been ended, an attempt to add a module or to
\* resolve a symbol on it fails fast with an error: the request returns a
\* status that is not OK and dereferences no absent session.
C6_FailFastAfterEnd ==
    UsedEndedSession
        => /\ last.outcome = "returned"
           /\ last.status # OK
           /\ last.err # "null"

\* C7: a teardown that follows a teardown changes nothing and returns OK, and
\* no session is ever ended twice.
C7_TeardownIdempotent ==
    /\ [][(last.op = "destroy" /\ last'.op = "destroy")
            => /\ UNCHANGED <<proc, enabled, session, llvm_shut, thread,
                              clang_invokable, inits>>
               /\ last'.outcome = "returned"
               /\ last'.status = OK]_vars
    /\ [](\A i \in 1..MaxSessions : endCount[i] <= 1)

C7_Witness ==
    /\ last.op = "destroy"
    /\ last.again
    /\ dylib_count = 1
    /\ endCount[1] = 1
    /\ jit_compiler = 0

\* Module i of the dylib can be linked: every external reference of the
\* modules its code generation pulls in is bound or is a process symbol.
Linkable(st, mods, done, psyms, i) ==
    LET C == LinkClosure(st, mods, done, {i})
    IN \A n \in UNION {mods[j].needs : j \in C} : st[n] # 0 \/ n \in psyms

\* A resolved address belongs to a module that addModule has added and that
\* defines the name.
ResolvedAfterAdd ==
    last.addr >= 1
        => (last.addr <= Len(modules) /\ last.name \in modules[last.addr].defs)

\* C8 as claimed: a name never resolves before the addModule call of the
\* module defining it has returned, and it always resolves after: a lookup
\* fails only for a name no added module defines.
C8_ResolveIffAdded ==
    /\ ResolvedAfterAdd
    /\ last.err = "notfound" => symtab[last.name] = 0

\* C8 as amended: a name never resolves before the addModule call of the
\* module defining it has returned; after it, the name resolves when the
\* module's external references (and those of the modules it pulls in)
\* resolve, and then the module is compiled and fully linked; the lookup
\* fails exactly when a reference cannot be resolved.
C8_ResolveAfterAddAndLink ==
    /\ ResolvedAfterAdd
    /\ last.addr >= 1
          => /\ last.addr \in compiled
             /\ \A j \in LinkClosure(symtab, modules, {}, {last.addr}) :
                    \A n \in modules[j].needs : symtab[n] # 0
    /\ (last.err = "notfound" /\ symtab[last.name] # 0)
          => /\ symtab[last.name] >= 1
             /\ symtab[last.name] \notin compiled
             /\ ~Linkable(symtab, modules, compiled, ProcessSymbols(libs),
                          symtab[last.name])

C8_Witness ==
    /\ last.op = "invoke"
    /\ last.name = "b"
    /\ last.addr >= 1
    /\ modules[last.addr].needs = {"q"}

C10_DistinctEntriesSucceed ==
    (CompiledAModule /\ ~last.created /\ last.name \in last.mod.defs)
        => \/ last.err = "none" /\ last.outcome = "returned" /\ last.invoked = 1
           \/ last.err = "duplicate" /\ \E n \in last.mod.defs : symtab[n] # 0

\* C10 as amended: a compile request whose module defines only names not yet
\* bound in the session, its entry point among them, and whose external
\* references resolve, succeeds; a request whose module defines a name
\* already bound fails with the duplicate-symbol error, and only then, and the
\* earlier bindings stay as they were.
C10_DuplicateOrSuccess ==
    [][(last'.op = "compile" /\ ~FrontEndReturnsEarly(last'.fe)
          /\ last'.fe.hasModule /\ last'.err # "create")
         => LET st0 == IF last'.created THEN EmptySymtab ELSE symtab
                mods0 == IF last'.created THEN <<>> ELSE modules
                dup == \E n \in last'.mod.defs : st0[n] # 0
            IN /\ (last'.err = "duplicate") <=> dup
               /\ dup => /\ symtab' = st0
                         /\ modules' = mods0
                         /\ last'.invoked = 0
               /\ (/\ ~dup
                   /\ last'.name \in last'.mod.defs
                   /\ Linkable(symtab', modules', compiled',
                               ProcessSymbols(libs'), Len(modules')))
                     => /\ last'.err = "none"
                        /\ last'.outcome = "returned"
                        /\ last'.invoked = 1
                        /\ last'.addr = Len(modules')]_vars

C10_Witness ==
    /\ last.op = "compile"
    /\ last.err = "duplicate"
    /\ ~last.created
    /\ last.name \in last.mod.defs
    /\ symtab[last.name] = 1
    /\ Len(modules) = 1

\* The last request met a fatal link or session condition: the session could
\* not be created, addModule failed, or a symbol was not found.
FatalCondition == last.err \in {"create", "duplicate", "notfound"}

\* C11: every fatal link or session condition is returned to the caller of the
\* compile or invoke request as a status that is not OK, and the process is
\* still running afterwards.
C11_FatalIsStatus ==
    FatalCondition
        => /\ last.outcome = "returned"
           /\ last.status # OK
           /\ proc = "running"

\* C12: once a name has been resolved in a session, every later resolution of
\* that name in the session returns the address the first one returned,
\* whatever modules were added in between.
C12_AddressStable ==
    (last.op \in {"compile", "invoke"} /\ last.addr # 0)
        => /\ jit_compiler = last.sess
           /\ resolved[last.name] = last.addr

\* "a" was resolved by the first compile request, a second module was added
\* and its "b" resolved, and "a" is resolved again by an invoke request.
C12_Witness ==
    /\ Len(modules) = 2
    /\ modules[1].defs = {"a"}
    /\ libs = {}
    /\ resolved["b"] = 2
    /\ last.op = "invoke"
    /\ last.name = "a"
    /\ last.addr = 1

\* The frame of a request that touches neither the session nor a call site.
\* The outputs of a call site are written by the object's operations only:
\* ClangInvoke hands them to the object and never writes them itself.
NothingButLastChanges ==
    UNCHANGED <<proc, enabled, session, llvm_shut, thread, clang_invokable, inits>>

\* C13: with thread 1 (setup only) every performance pass returns OK, does not
\* call the object's kontrol, and leaves the instance, the call site and the
\* session as they were.
C13_SetupOnlyKontrolIsNoOp ==
    [][(last'.op = "kontrol" /\ thread[last'.site] = 1)
         => /\ last'.outcome = "returned"
            /\ last'.status = OK
            /\ last'.delivered = "none"
            /\ NothingButLastChanges]_vars

\* A performance pass on a call site that holds an instance made under thread 1.
C13_Witness ==
    /\ last.op = "kontrol"
    /\ thread[last.site] = 1
    /\ clang_invokable[last.site]
    /\ last.status = OK
    /\ proc = "running"

\* The last request ran on a call site whose thread value is not 1, 2 or 3.
OnInvalidThreadSite ==
    /\ last.op \in {"invoke", "kontrol", "noteoff"}
    /\ ~ValidThread(thread[last.site])

\* C14: an invoke request with a thread value outside {1, 2, 3} returns a
\* status that is not OK without looking up or calling the factory, and no
\* later performance or note-off pass on that call site reaches an object or
\* dereferences the absent one.
C14_InvalidThreadNeverReachesObject ==
    OnInvalidThreadSite
        => /\ last.outcome = "returned"
           /\ last.delivered = "none"
           /\ last.err # "null"
           /\ last.op = "invoke" => (last.status # OK /\ last.addr = 0)

\* C15: with thread 2 (update only) the object's init is never called (init
\* is delivered by an invoke request under thread 1 or 3 and by nothing else);
\* the invoke request still constructs the instance and returns OK; a
\* performance pass on the instance is delivered to the object; a note-off
\* pass is delivered to the object and releases the instance.
C15_UpdateOnlyLifecycle ==
    [][/\ last'.delivered = "init"
            => (last'.op = "invoke" /\ thread'[last'.site] \in {1, 3})
       /\ (last'.op = "invoke" /\ thread'[last'.site] = 2
              /\ last'.outcome = "returned")
            => /\ clang_invokable'[last'.site]
               /\ last'.addr # 0
               /\ last'.delivered = "none"
               /\ last'.status = OK
       /\ (last'.op = "kontrol" /\ thread[last'.site] = 2
              /\ clang_invokable[last'.site])
            => /\ last'.delivered = "kontrol"
               /\ last'.outcome = "returned"
               /\ last'.status = last'.obj
               /\ clang_invokable'[last'.site]
       /\ (last'.op = "noteoff" /\ thread[last'.site] = 2
              /\ clang_invokable[last'.site])
            => /\ last'.delivered = "noteoff"
               /\ last'.outcome = "returned"
               /\ ~clang_invokable'[last'.site]]_vars

\* A note-off pass that follows a delivered performance pass under thread 2.
C15_Witness ==
    /\ last.op = "noteoff"
    /\ thread[last.site] = 2
    /\ last.after = "kontrol"
    /\ last.delivered = "noteoff"
    /\ ~clang_invokable[last.site]

\* C16: a note-off pass on a call site that holds an instance calls the
\* object's noteoff, releases the instance whatever status that call
\* returned, and returns that status.
C16_NoteoffAlwaysReleases ==
    [][(last'.op = "noteoff" /\ clang_invokable[last'.site])
         => /\ last'.delivered = "noteoff"
            /\ ~clang_invokable'[last'.site]
            /\ last'.outcome = "returned"
            /\ last'.status = last'.obj
            /\ last'.obj \in Statuses]_vars

\* The object's noteoff failed and the instance is released all the same.
C16_Witness ==
    /\ last.op = "noteoff"
    /\ last.delivered = "noteoff"
    /\ last.obj = NOTOK
    /\ last.status = NOTOK
    /\ ~clang_invokable[last.site]

\* C17: an invoke request whose factory name is not found in the session is
\* fatal: it constructs no instance and calls nothing of an object, and no
\* request runs after it (the process has ended), so nothing is ever
\* delivered to an object for that call site.
C17_MissingFactoryIsFatal ==
    /\ [][(last'.op = "invoke" /\ last'.err = "notfound")
            => /\ proc' # "running"
               /\ last'.addr = 0
               /\ last'.delivered = "none"
               /\ UNCHANGED <<clang_invokable, symtab, compiled>>]_vars
    /\ [][proc = "running"]_vars

C17_Witness ==
    /\ last.op = "invoke"
    /\ last.err = "notfound"
    /\ last.name = "b"
    /\ symtab["b"] = 0
    /\ jit_compiler # 0
    /\ proc = "exited"

\* The option string holds "-v" as a whole space-delimited word.
CarriesVerbose(opts) ==
    \E i \in 1..(Len(opts) - 1) :
        /\ opts[i] = "-" /\ opts[i + 1] = "v"
        /\ (i = 1 \/ opts[i - 1] = " ")
        /\ (i + 1 = Len(opts) \/ opts[i + 2] = " ")

\* C19 as claimed: diagnostics are enabled by a compile request that carries
\* -v and by nothing else, and once enabled they stay enabled through every
\* later request, compile requests without -v included.
C19_VerboseSticks ==
    [][enabled => enabled']_vars

\* C19 as amended: every compile request sets the process-wide flag to
\* whether its own options carry the token -v (a request without it turns
\* diagnostics off), and invoke, performance, note-off and teardown requests
\* leave the flag as the last compile request set it.
C19_VerboseUntilNextCompile ==
    [][/\ last'.op = "compile" => enabled' = CarriesVerbose(last'.opts)
       /\ last'.op # "compile" => enabled' = enabled]_vars

\* Diagnostics enabled by an earlier compile request are seen by a note-off.
C19_Witness ==
    /\ enabled
    /\ last.op = "noteoff"
    /\ last.delivered = "noteoff"
    /\ last.after = "kontrol"

\* The libraries of a list that cannot be loaded.
Unloadable(ll) ==
    LET list == tokenize(ll, " ")
    IN {list[i] : i \in 1..Len(list)} \ ExistingLibs

InSessionCall == {t \in Workers : pc[t] \in {"in_add", "in_lookup"}}

\* C18: when call sites run at the same time, at most one of them is inside
\* addModule or getSymbolAddress at any time, and a call in progress always
\* runs on the session as it is, never on one another call site has replaced.
C18_SessionSerializes ==
    /\ Cardinality(InSessionCall) <= 1
    /\ \A t \in InSessionCall : job[t].using = jit_compiler

\* The call sites whose addModule call has returned without an error.
PastAddModule == {t \in Workers : pc[t] \in {"lookup", "in_lookup", "done"}}

\* C21: when two call sites compile at the same time and there is no session
\* yet, the check for a session and its creation are one atomic step: one
\* session is constructed, none is released, and the module of every call
\* site whose addModule has returned is in that one session.
C21_CreateIsAtomic ==
    /\ dylib_count <= 1
    /\ \A i \in 1..MaxSessions : endCount[i] = 0
    /\ last.err \notin {"race", "freed"}
    /\ \A t \in PastAddModule :
          /\ job[t].using = jit_compiler
          /\ \E i \in 1..Len(modules) : modules[i] = job[t].mod

\* C22: the object's init is delivered only by the invoke request that has
\* just constructed the object, so at most once per instance and before any
\* kontrol or noteoff of it; and once a note-off pass has released the
\* instance, a performance or note-off pass that follows on that call site
\* is neither delivered to an object nor dereferences the pointer the
\* note-off pass has reset.
C22_RetiredIsTerminal ==
    [][/\ last'.delivered = "init"
            => /\ last'.op = "invoke"
               /\ last'.addr # 0
               /\ clang_invokable'[last'.site]
       /\ (/\ last.op = "noteoff" /\ last.delivered = "noteoff"
           /\ last'.op \in {"kontrol", "noteoff"}
           /\ last'.site = last.site)
            => /\ last'.outcome = "returned"
               /\ last'.delivered = "none"
               /\ last'.err # "null"]_vars

====
